---- MODULE Spec2Model ----
(***************************************************************************)
(* Model of tequila's gradient engine (src/tequila/circuit/gradient.py):   *)
(* grad, __grad_objective, __grad_inner, __grad_expectationvalue and       *)
(* __grad_gaussian, acting on objectives built from expectation values.    *)
(*                                                                         *)
(* Gates are objects on a heap (a sequence of gate records addressed by    *)
(* their index), unitaries are sequences of gate references, so that       *)
(* copying and in-place assignment are distinguishable.  Angles are        *)
(* counted in units of pi/8, weights are integers.                         *)
(*                                                                         *)
(* SpecActive models make_active_space_hamiltonian of the psi4 interface   *)
(* (src/tequila/quantumchemistry/psi4_interface.py).                       *)
(***************************************************************************)
EXTENDS Integers, Sequences, FiniteSets, TLC

\* ------------------------------------------------------------------ bounds
MaxGates == 2
MaxArgs == 2

\* ------------------------------------------------------- program constants
\* np.pi / 4 of the shift rule, in units of pi/8
PiQuarter == 2

Variables == {"a", "b"}
NoVar == "none"
None == "None"
\* the values of __AUTOGRAD__BACKEND__ a call is run under
Backends == {"jax", "none"}

\* --------------------------------------------------------------- the gates
\* var: the Variable of the gate's parameter (NoVar: a fixed gate),
\* off: the numeric part of _parameter, ctrl: is_controlled(),
\* shift: the shift attribute (0: the gate has none), sg: has shifted_gates
Rot(v) == [var |-> v, off |-> 0, ctrl |-> FALSE, shift |-> 1, sg |-> FALSE]
CRot(v) == [var |-> v, off |-> 0, ctrl |-> TRUE, shift |-> 1, sg |-> FALSE]
Gen(v) == [var |-> v, off |-> 0, ctrl |-> FALSE, shift |-> 2, sg |-> TRUE]
\* a gate with shifted_gates and without a shift attribute
GenOnly(v) == [var |-> v, off |-> 0, ctrl |-> FALSE, shift |-> 0, sg |-> TRUE]
\* a rotation by the angle v + pi/8 with the shift constant 2
Rot2(v) == [var |-> v, off |-> 1, ctrl |-> FALSE, shift |-> 2, sg |-> FALSE]
Fix == [var |-> NoVar, off |-> 0, ctrl |-> FALSE, shift |-> 0, sg |-> FALSE]

\* ------------------------------------------------------------ result values
Zero == [kind |-> "zero"]
One == [kind |-> "one"]
Err(m) == [kind |-> "error", msg |-> m]
NoResult == [kind |-> "none"]
IsErr(r) == r.kind = "error"

\* ----------------------------------------------- the collaborators' contracts
\* Unitary.extract_variables / Objective.extract_variables
RECURSIVE ExtractVariables(_, _)
ExtractVariables(h, node) ==
    CASE node.t = "V" -> {node.v}
      [] node.t = "E" ->
           ({h[node.U[i]].var : i \in 1..Len(node.U)} \cup {node.unmapped})
               \ {NoVar}
      [] node.t = "O" ->
           UNION {ExtractVariables(h, node.args[i]) : i \in 1..Len(node.args)}

\* Unitary._parameter_map has no key v: the unitary lists v among its
\* variables without any occurrence and its map is a plain mapping
KeyMissing(h, E, v) ==
    /\ v = E.unmapped
    /\ ~E.keyed
    /\ \A i \in 1..Len(E.U) : h[E.U[i]].var # v

\* Unitary._parameter_map[variable]: the positions of the gates depending on v
ParameterMap(h, U, v) ==
    SelectSeq([i \in 1..Len(U) |-> i], LAMBDA i : h[U[i]].var = v)

\* Unitary.replace_gates(positions=[i], circuits=[g]): a new unitary
ReplaceGates(U, i, gid) == [U EXCEPT ![i] = gid]

\* Unitary.verify()
Verify(E) == E.valid

\* Objective.is_expectationvalue(): wraps exactly one expectation value
IsExpectationvalue(node) ==
    /\ node.t = "O"
    /\ node.T = "none"
    /\ Len(node.args) = 1
    /\ node.args[1].t = "E"

\* Gate.shifted_gates(): the (weight, angle shift) pairs of a generalized gate
ShiftedGates(g) ==
    << [w |-> 2, d |-> 1], [w |-> -2, d |-> -1],
       [w |-> -1, d |-> 3], [w |-> 1, d |-> -3] >>

\* the partial derivative of a (linear) transformation T in its i-th input
\* ("sum": x1 + x2 + ..., "lin": 2 x1 - x2 + 0 x3 + ...)
Coefficient(T, i) ==
    CASE T = "sum" -> 1
      [] T = "lin" -> IF i = 1 THEN 2 ELSE IF i = 2 THEN -1 ELSE 0
      [] OTHER -> 1

\* ------------------------------------------------ the compiler pre-pass
\* Compiler(...)(objective, variables=[v]) on one unitary, from position k on:
\* a controlled gate depending on v is decomposed into a new, uncontrolled
\* gate; the other gates are kept.  drop is a defect of the compiler: the
\* gates depending on v are replaced by fixed gates.
RECURSIVE CompileGates(_, _, _, _, _)
CompileGates(h, U, k, v, drop) ==
    IF k > Len(U) THEN [heap |-> h, U |-> U]
    ELSE LET g == h[U[k]] IN
         IF g.var = v /\ (drop \/ g.ctrl)
         THEN LET ng == IF drop THEN Fix ELSE [g EXCEPT !.ctrl = FALSE]
              IN CompileGates(Append(h, ng), [U EXCEPT ![k] = Len(h) + 1],
                              k + 1, v, drop)
         ELSE CompileGates(h, U, k + 1, v, drop)

\* the expectation values of a node
RECURSIVE ExpectationValues(_)
ExpectationValues(node) ==
    CASE node.t = "E" -> {node}
      [] node.t = "V" -> {}
      [] node.t = "O" ->
           UNION {ExpectationValues(node.args[i]) : i \in 1..Len(node.args)}

\* every expectation value is compiled once (cmap: id -> compiled value)
RECURSIVE CompileAll(_, _, _, _, _)
CompileAll(h, es, cmap, v, drop) ==
    IF es = {} THEN [heap |-> h, cmap |-> cmap]
    ELSE LET e == CHOOSE x \in es : \A y \in es : x.id <= y.id
             c == CompileGates(h, e.U, 1, v, drop)
             ce == [e EXCEPT !.U = c.U, !.origin = "compiled"]
         IN CompileAll(c.heap, es \ {e}, (e.id :> ce) @@ cmap, v, drop)

RECURSIVE Substitute(_, _)
Substitute(node, cmap) ==
    CASE node.t = "E" -> cmap[node.id]
      [] node.t = "V" -> node
      [] node.t = "O" ->
           [node EXCEPT !.args =
               [i \in 1..Len(node.args) |-> Substitute(node.args[i], cmap)]]

Compile(h, objective, v, drop) ==
    LET c == CompileAll(h, ExpectationValues(objective), <<>>, v, drop)
    IN [heap |-> c.heap, compiled |-> Substitute(objective, c.cmap)]

\* ------------------------------------------------------- __grad_gaussian
\* (a shifted gate made without the copy: the gate itself)
DeepCopyAlias(h, gid) == [heap |-> h, id |-> gid]

\* copy.deepcopy(g): a new gate object with the contents of g
DeepCopy(h, gid) == [heap |-> Append(h, h[gid]), id |-> Len(h) + 1]

\* (the parameter of the copy left as it was)
SetParameterSkipped(h, gid, p) == h

\* neo._parameter = p
SetParameter(h, gid, p) == [h EXCEPT ![gid].off = p]

\* __grad_inner on a Variable (a gate parameter or an argument)
VariableInner(arg, v) == IF arg.v = v THEN One ELSE Zero

\* the number a literal 1.0 / 0.0 stands for
Number(r) == IF r = One THEN 1 ELSE 0

HasShiftedGates(g) == g.sg
HasShift(g) == g.shift # 0

\* (the shift taken without the gate's shift constant)
ShiftAUnscaled(g) == g.off + PiQuarter

\* shift_a = g._parameter + np.pi / (4 * g.shift)
ShiftA(g) == g.off + PiQuarter \div g.shift

\* shift_b = g._parameter - np.pi / (4 * g.shift)
ShiftB(g) == g.off - PiQuarter \div g.shift

GradGaussian(h, E, i, v) ==
    LET gid == E.U[i]
        g == h[gid]
        inner == Number(VariableInner([t |-> "V", v |-> g.var], v))
    IN IF HasShiftedGates(g)
       THEN LET shifted == ShiftedGates(g)
                n == Len(shifted)
            IN [heap |-> h \o [k \in 1..n |->
                                  [g EXCEPT !.off = g.off + shifted[k].d]],
                res |-> [kind |-> "sum",
                         terms |-> [k \in 1..n |->
                             [w |-> shifted[k].w * inner,
                              U |-> ReplaceGates(E.U, i, Len(h) + k),
                              H |-> E.H]]]]
       ELSE IF ~HasShift(g)
       THEN [heap |-> h, res |-> Err("No shift found for gate")]
       ELSE LET shift_a == ShiftA(g)
                shift_b == ShiftB(g)
                ca == DeepCopy(h, gid)
                ha == SetParameter(ca.heap, ca.id, shift_a)
                cb == DeepCopy(ha, gid)
                hb == SetParameter(cb.heap, cb.id, shift_b)
            IN [heap |-> hb,
                res |-> [kind |-> "sum",
                         terms |-> << [w |-> hb[gid].shift * inner,
                                       U |-> ReplaceGates(E.U, i, ca.id),
                                       H |-> E.H],
                                      [w |-> (0 - hb[gid].shift) * inner,
                                       U |-> ReplaceGates(E.U, i, cb.id),
                                       H |-> E.H] >>]]

\* ------------------------------------------------ __grad_expectationvalue
\* (the failsafe left out)
IsControlledNever(g) == FALSE

IsControlled(g) == g.ctrl

\* (dO = dOinc: the contributions before it are lost)
AccumulatedLast(terms, inc) == inc

\* dO += dOinc (line 163)
Accumulated(terms, inc) == terms \o inc

\* the loop over param_gates, from the k-th occurrence on
RECURSIVE GradOccurrences(_, _, _, _, _, _)
GradOccurrences(h, E, occ, k, v, terms) ==
    IF k > Len(occ) THEN [heap |-> h, res |-> [kind |-> "sum", terms |-> terms]]
    ELSE LET g == h[E.U[occ[k]]] IN
         IF IsControlled(g)
         THEN [heap |-> h,
               res |-> Err("controlled gate in gradient: Compiler was not called")]
         ELSE IF ~HasShift(g)
         THEN [heap |-> h, res |-> Err("No shift found for gate")]
         ELSE LET Add(inc) ==
                      IF IsErr(inc.res) THEN inc
                      ELSE GradOccurrences(inc.heap, E, occ, k + 1, v,
                                           Accumulated(terms, inc.res.terms))
              IN Add(GradGaussian(h, E, occ[k], v))

\* one run of the leaf differentiator: the expectation value and variable it
\* was applied to, how it ended and the number of gates it made
LeafEvent(h, E, v, dO) ==
    [ev |-> "leaf", id |-> E.id, origin |-> E.origin, var |-> v,
     valid |-> Verify(E), depends |-> v \in ExtractVariables(h, E),
     out |-> dO.res.kind, made |-> Len(dO.heap) - Len(h)]

\* (the validity check left out)
IsInvalidNever(E) == FALSE

\* not (unitary.verify()) (line 143)
IsInvalid(E) == ~Verify(E)

\* (the fast return left out)
LeafDependsAlways(h, E, v) == TRUE

\* variable not in unitary.extract_variables() is false (line 147)
LeafDepends(h, E, v) == v \in ExtractVariables(h, E)

GradExpectationvalue(h, lg, E, v) ==
    LET Return(dO) == [heap |-> dO.heap, log |-> Append(lg, LeafEvent(h, E, v, dO)),
                       res |-> dO.res]
    IN IF IsInvalid(E)
       THEN Return([heap |-> h, res |-> Err("error in grad_expectationvalue")])
       ELSE IF ~LeafDepends(h, E, v)
       THEN Return([heap |-> h, res |-> Zero])
       ELSE IF KeyMissing(h, E, v)
       THEN Return([heap |-> h, res |-> Err("KeyError")])
       ELSE Return(GradOccurrences(h, E, ParameterMap(h, E.U, v), 1, v, <<>>))

\* ------------------------------------------------------- __grad_objective
\* (the partial derivative obtained whatever the backend)
BackendAvailableAlways(be) == TRUE

\* the __AUTOGRAD__BACKEND__ dispatch: jax.grad exists for "jax" and "autograd"
BackendAvailable(be) == be = "jax" \/ be = "autograd"

\* (the partial derivative taken in the first input for every argument)
OuterFactorFirst(O, i) ==
    IF O.T = "none" THEN One
    ELSE [kind |-> "outer", args |-> O.args, T |-> O.T, partial |-> 1]

\* (the outer derivative taken to be 1.0 for every transformation)
OuterFactorOne(O, i) == One

\* the outer derivative: the constant 1.0 without a transformation, otherwise
\* Objective(args=args, transformation=df) with df the i-th partial of T
OuterFactor(O, i) ==
    IF O.T = "none" THEN One
    ELSE [kind |-> "outer", args |-> O.args, T |-> O.T, partial |-> i]

\* (a repeated expectation value taken to contribute nothing)
MemoizedSkipped(cache, arg) == Zero

\* processed_expectationvalues: the inner derivative saved for arg
Memoized(cache, arg) == cache[arg]

\* hasattr(arg, "U")
HasU(arg) == arg.t = "E"

\* the state of one invocation of __grad_objective: the heap and the log
\* it works on, its cache, the terms of dO so far (none: dO is None), and
\* the exception it ended in, if any; inners: the kind of the inner factor
\* of each argument gone through
NewFrame(h, lg) ==
    [heap |-> h, log |-> lg, cache |-> <<>>, chain |-> <<>>, err |-> NoResult,
     inners |-> <<>>]

\* (no inner factor taken for zero)
IsZeroInnerNever(inner) == FALSE

\* inner == 0.0 (line 95)
IsZeroInner(inner) == inner = Zero


RECURSIVE GradInner(_, _, _, _, _)
RECURSIVE GradObjective(_, _, _, _, _)

\* one iteration of the loop over the arguments (lines 70-102)
ObjectiveIter(fr, O, i, v, be) ==
    LET arg == O.args[i]
        hit == HasU(arg) /\ arg \in DOMAIN fr.cache
        \* lines 86-102, given the inner derivative r
        Accumulate(outer, r) ==
            IF IsErr(r.res)
            THEN [fr EXCEPT !.heap = r.heap, !.log = r.log, !.err = r.res,
                            !.inners = Append(fr.inners, r.res.kind)]
            ELSE [heap |-> r.heap,
                  log |-> r.log,
                  cache |-> IF HasU(arg) /\ ~hit
                            THEN (arg :> r.res) @@ fr.cache ELSE fr.cache,
                  chain |-> IF IsZeroInner(r.res) THEN fr.chain
                            ELSE Append(fr.chain,
                                        [outer |-> outer, inner |-> r.res]),
                  err |-> NoResult,
                  inners |-> Append(fr.inners, r.res.kind)]
    IN IF ~BackendAvailable(be)
       THEN [fr EXCEPT !.err = Err("Can't differentiate without autograd or jax")]
       ELSE Accumulate(OuterFactor(O, i),
                       IF hit
                       THEN [heap |-> fr.heap, log |-> fr.log,
                             res |-> Memoized(fr.cache, arg)]
                       ELSE GradInner(fr.heap, fr.log, arg, v, be))

\* (dO returned as it is, also when it is None)
ObjectiveResultUnchecked(fr) ==
    IF fr.err # NoResult THEN fr.err
    ELSE [kind |-> "chain", chain |-> fr.chain]

\* the end of __grad_objective (lines 104-106)
ObjectiveResult(fr) ==
    IF fr.err # NoResult THEN fr.err
    ELSE IF fr.chain = <<>> THEN Err("caught None in __grad_objective")
    ELSE [kind |-> "chain", chain |-> fr.chain]

RECURSIVE ObjectiveLoop(_, _, _, _, _)
ObjectiveLoop(fr, O, i, v, be) ==
    IF fr.err # NoResult \/ i > Len(O.args) THEN fr
    ELSE ObjectiveLoop(ObjectiveIter(fr, O, i, v, be), O, i + 1, v, be)

\* one run of __grad_objective: the number of its arguments, the inner
\* factors it obtained, the number of terms of dO and how it ended (caught:
\* in the exception of line 105, not in one of the loop)
ObjectiveEvent(O, v, fr, res) ==
    [ev |-> "objective", var |-> v, n |-> Len(O.args), inners |-> fr.inners,
     terms |-> Len(fr.chain), made |-> Len(fr.heap), out |-> res.kind,
     msg |-> IF IsErr(res) THEN res.msg ELSE "",
     caught |-> fr.err = NoResult /\ IsErr(res)]

GradObjective(h, lg, O, v, be) ==
    LET End(fr, res) ==
            [heap |-> fr.heap,
             log |-> Append(fr.log, ObjectiveEvent(O, v, fr, res)),
             res |-> res]
        Return(fr) == End(fr, ObjectiveResult(fr))
    IN Return(ObjectiveLoop(NewFrame(h, lg), O, 1, v, be))

\* ------------------------------------------------------------ __grad_inner
GradInner(h, lg, arg, v, be) ==
    CASE arg.t = "V" -> [heap |-> h, log |-> lg, res |-> VariableInner(arg, v)]
      [] arg.t = "E" -> GradExpectationvalue(h, lg, arg, v)
      [] OTHER -> GradObjective(h, lg, arg, v, be)

\* -------------------------------------------------------------------- grad
CompileEvent(v) == [ev |-> "compile", id |-> 0, origin |-> "input", var |-> v]

\* (the fast path left out)
IsFreeVariableAlways(h, objective, v) == TRUE

\* variable not in objective.extract_variables() is false (line 36)
IsFreeVariable(h, objective, v) == v \in ExtractVariables(h, objective)

\* (the check after compilation left out)
StillDependsAlways(h, compiled, v) == TRUE

\* variable not in compiled.extract_variables() is false (line 51)
StillDepends(h, compiled, v) == v \in ExtractVariables(h, compiled)

\* the expectation value differentiated for a bare ExpectationValueImpl (line 55)
BareLeaf(objective, compiled) == objective

\* (the node returned as if it had no derivative)
UnsupportedTypeZero(compiled) == Zero

\* the raise of line 61
UnsupportedType(compiled) ==
    Err("Gradient not implemented for other types than ExpectationValue and Objective.")

\* isinstance(compiled, Objective) (line 58)
IsObjective(compiled) == compiled.t = "O"

\* lines 36-61 of grad for a given variable, up to the call of
\* __grad_objective (res = Pending: that call is still to be made on compiled);
\* drop is the compiler's defect
Pending == [kind |-> "pending"]

GradEnter(h, lg, objective, v, nc, drop) ==
    IF ~IsFreeVariable(h, objective, v)
    THEN [heap |-> h, log |-> lg, res |-> Zero, compiled |-> objective]
    ELSE LET lg2 == IF nc THEN lg ELSE Append(lg, CompileEvent(v))
             \* lines 51-61, given the compiler's output c
             Dispatch(c) ==
                 LET Return(r) == [heap |-> r.heap, log |-> r.log,
                                   compiled |-> c.compiled, res |-> r.res]
                 IN IF ~StillDepends(c.heap, c.compiled, v)
                    THEN [heap |-> c.heap, log |-> lg2, compiled |-> c.compiled,
                          res |-> Err("Error in taking gradient. Objective does not depend on variable")]
                    ELSE IF objective.t = "E" \/ IsExpectationvalue(objective)
                    THEN Return(GradExpectationvalue(c.heap, lg2,
                             IF objective.t = "E"
                             THEN BareLeaf(objective, c.compiled)
                             ELSE c.compiled.args[Len(c.compiled.args)], v))
                    ELSE IF IsObjective(c.compiled)
                    THEN [heap |-> c.heap, log |-> lg2, compiled |-> c.compiled,
                          res |-> Pending]
                    ELSE [heap |-> c.heap, log |-> lg2, compiled |-> c.compiled,
                          res |-> UnsupportedType(c.compiled)]
         IN Dispatch(IF nc THEN [heap |-> h, compiled |-> objective]
                     ELSE Compile(h, objective, v, drop))

\* grad(objective, variable, no_compile) for a given variable; be is the
\* configured backend
GradVariable(h, lg, objective, v, nc, be, drop) ==
    LET Continue(e) ==
            IF e.res = Pending THEN GradObjective(e.heap, e.log, e.compiled, v, be)
            ELSE [heap |-> e.heap, log |-> e.log, res |-> e.res]
    IN Continue(GradEnter(h, lg, objective, v, nc, drop))

\* (the check for an empty variable list left out)
NoVariablesNever(variables) == FALSE

\* len(variables) == 0 (line 26)
NoVariables(variables) == variables = {}

\* (no_compile not passed on: the default)
InnerNoCompileDefault(nc) == FALSE

\* the no_compile passed on by the loop over all variables (line 31)
InnerNoCompile(nc) == nc

\* the variables in the order of extract_variables()
VariableOrder(vs) == SelectSeq(<<"a", "b">>, LAMBDA x : x \in vs)

\* the loop of lines 29-31, from the k-th variable on
RECURSIVE GradLoop(_, _, _, _, _, _, _, _, _)
GradLoop(h, lg, objective, ks, k, map, nc, be, drop) ==
    IF k > Len(ks) THEN [heap |-> h, log |-> lg, res |-> [kind |-> "map", map |-> map]]
    ELSE LET Collect(r) ==
                 IF IsErr(r.res) THEN r
                 ELSE GradLoop(r.heap, r.log, objective, ks, k + 1,
                               (ks[k] :> r.res) @@ map, nc, be, drop)
         IN Collect(GradVariable(h, lg, objective, ks[k], InnerNoCompile(nc), be, drop))

\* grad(objective, variable=None, no_compile)
GradAll(h, lg, objective, nc, be, drop) ==
    LET variables == ExtractVariables(h, objective) IN
    IF NoVariables(variables)
    THEN [heap |-> h, log |-> lg,
          res |-> Err("Error in gradient: Objective has no variables")]
    ELSE GradLoop(h, lg, objective, VariableOrder(variables), 1, <<>>, nc, be, drop)

Grad(h, lg, objective, v, nc, be, drop) ==
    IF v = None THEN GradAll(h, lg, objective, nc, be, drop)
    ELSE GradVariable(h, lg, objective, v, nc, be, drop)

\* ------------------------------------------------------------- the inputs
GateSet == {Rot("a"), Rot("b"), CRot("a"), Gen("a"), GenOnly("a"), Fix}

\* the gate sequences of the unitaries: 1..MaxGates gates
Unitaries == UNION {[1..n -> GateSet] : n \in 1..MaxGates}

\* the gates of an expectation value that is one of several arguments
ArgGateSet == {Rot("a"), Rot("b"), CRot("a")}
ArgUnitaries == UNION {[1..n -> ArgGateSet] : n \in 1..MaxGates}

Transformations == {"none", "sum", "lin"}

\* the arguments an objective is built from: two expectation values (E2 is a
\* single rotation by b with the shift constant 2), the Variable a, and an
\* Objective wrapping E2
ArgTags == {"E1", "E2", "Va", "O2"}
ArgSeqs == UNION {[1..n -> ArgTags] : n \in 1..MaxArgs}

\* unmapped: a variable the unitary lists without an occurrence in its
\* parameter map (NoVar: none); keyed: the map has an entry, an empty list,
\* for it
ExpVal(id, U, valid) ==
    [t |-> "E", id |-> id, U |-> U, H |-> id, valid |-> valid, origin |-> "input",
     unmapped |-> NoVar, keyed |-> FALSE]

\* the expectation value E with v listed among its variables
Unmapped(E, v, keyed) == [E EXCEPT !.unmapped = v, !.keyed = keyed]

Wrap(arg) == [t |-> "O", args |-> <<arg>>, T |-> "none"]

\* E2's gate is object 1 of the heap, E1's gates are the objects 2, 3, ...
Node(tag, u, valid) ==
    CASE tag = "E1" -> ExpVal(1, [i \in 1..Len(u) |-> i + 1], valid)
      [] tag = "E2" -> ExpVal(2, <<1>>, TRUE)
      [] tag = "Va" -> [t |-> "V", v |-> "a"]
      [] tag = "O2" -> Wrap(ExpVal(2, <<1>>, TRUE))

SourceHeap(u) == <<Rot2("b")>> \o u

VARIABLES
    objective,   \* the objective grad is called on
    heap,        \* the gate objects
    phase,       \* "idle": no call yet, "done": the call has ended
    call,        \* the arguments and the environment of the call
    result,      \* what the call returned, or the error it raised
    log,         \* the compiler runs and leaf differentiations of the call
    threads,     \* the concurrent grad calls: the position and locals of each
    processed,   \* processed_expectationvalues of each concurrent call
    psi4,        \* a QuantumChemistryPsi4 object: energies, logs
    madness      \* a QuantumChemistryMadness object under construction

vars == <<objective, heap, phase, call, result, log, threads, processed,
          psi4, madness>>

\* the concurrent calls: call 1 differentiates for a, call 2 for b
Calls == {1, 2}
TargetOf(c) == IF c = 1 THEN "a" ELSE "b"

IdleThread ==
    [pc |-> "idle", no_compile |-> FALSE, compiled |-> NoResult, i |-> 0,
     chain |-> <<>>, err |-> NoResult, log |-> <<>>, result |-> NoResult,
     overlap |-> FALSE]

\* no interface object
NoObject == [pc |-> "none"]

NoCall == [variable |-> None, no_compile |-> FALSE, backend |-> "none",
           drop |-> FALSE]

InitObjective(o, h) ==
    /\ objective = o
    /\ heap = h
    /\ phase = "idle"
    /\ call = NoCall
    /\ result = NoResult
    /\ log = <<>>
    /\ threads = [c \in Calls |-> IdleThread]
    /\ processed = [c \in Calls |-> <<>>]
    /\ psi4 = NoObject
    /\ madness = NoObject

\* the objective of the given arguments over the unitary u of E1
InitArgs(tags, T, u, valid) ==
    InitObjective([t |-> "O",
                   args |-> [i \in 1..Len(tags) |-> Node(tags[i], u, valid)],
                   T |-> T],
                  SourceHeap(u))

\* a bare expectation value or an objective of one expectation value, over
\* any unitary; an objective of several arguments; a bare Variable; a bare
\* expectation value or an objective of one whose unitary lists a variable
\* that none of its gates depends on
Init ==
    \/ \E u \in Unitaries, valid \in BOOLEAN :
          /\ ~valid => Len(u) = 1
          /\ \/ InitObjective(Node("E1", u, valid), SourceHeap(u))
             \/ \E T \in Transformations : InitArgs(<<"E1">>, T, u, valid)
    \/ \E u \in ArgUnitaries, valid \in BOOLEAN, tags \in ArgSeqs,
          T \in Transformations :
          /\ ~valid => Len(u) = 1
          /\ Len(tags) > 1
          /\ \E i \in 1..Len(tags) : tags[i] = "E1"
          /\ InitArgs(tags, T, u, valid)
    \/ \E tags \in ArgSeqs, T \in Transformations :
          /\ \A i \in 1..Len(tags) : tags[i] # "E1"
          /\ InitArgs(tags, T, <<>>, TRUE)
    \/ InitObjective([t |-> "V", v |-> "a"], SourceHeap(<<>>))
    \/ \E u \in Unitaries, v \in Variables, keyed \in BOOLEAN :
          /\ Len(u) = 1
          /\ u[1].var # v
          /\ \/ InitObjective(Unmapped(Node("E1", u, TRUE), v, keyed), SourceHeap(u))
             \/ \E T \in Transformations :
                   InitObjective([t |-> "O",
                                  args |-> <<Unmapped(Node("E1", u, TRUE), v, keyed)>>,
                                  T |-> T],
                                 SourceHeap(u))

\* the gate objects that exist before the call
SourceIds == 1..(1 + Cardinality(UNION {{e.U[i] : i \in 1..Len(e.U)} \ {1} :
                                         e \in ExpectationValues(objective)}))

\* a call of grad from start to end
CallGrad ==
    /\ phase = "idle"
    /\ \E v \in Variables \cup {None}, nc \in BOOLEAN, be \in Backends,
          drop \in BOOLEAN :
          /\ nc => ~drop
          /\ LET r == Grad(heap, <<>>, objective, v, nc, be, drop) IN
                /\ heap' = r.heap
                /\ log' = r.log
                /\ result' = r.res
          /\ call' = [variable |-> v, no_compile |-> nc, backend |-> be,
                      drop |-> drop]
    /\ phase' = "done"
    /\ UNCHANGED <<objective, threads, processed, psi4, madness>>

\* the caller drops the result; the gates made by the call are collected
Discard ==
    /\ phase = "done"
    /\ phase' = "idle"
    /\ heap' = SubSeq(heap, 1, Cardinality(SourceIds))
    /\ call' = NoCall
    /\ result' = NoResult
    /\ log' = <<>>
    /\ UNCHANGED <<objective, threads, processed, psi4, madness>>

Next == CallGrad \/ Discard

Spec == Init /\ [][Next]_vars

\* ------------------------------------------- two calls running concurrently
\* the backend the concurrent calls run under
ConcBackend == "jax"

\* (one dictionary shared by the calls instead of one per call)
SharedCache(pr, c) == pr[1] @@ pr[2]

\* processed_expectationvalues of call c: created by the call (line 69)
LocalCache(pr, c) == pr[c]

\* the objectives 2 x1 - x2 + ... of the two expectation values, E1 valid
InitConc ==
    \E u \in ArgUnitaries, tags \in ArgSeqs, T \in {"lin"} :
        /\ \A i \in 1..Len(tags) : tags[i] \in {"E1", "E2"}
        /\ \E i \in 1..Len(tags) : tags[i] = "E1"
        /\ InitArgs(tags, T, u, TRUE)

\* call c runs lines 12-61 of grad up to the call of __grad_objective, or to
\* its end when there is no such call
Enter(c) ==
    /\ threads[c].pc = "idle"
    /\ \E nc \in BOOLEAN :
          LET e == GradEnter(heap, <<>>, objective, TargetOf(c), nc, FALSE) IN
          /\ heap' = e.heap
          /\ threads' = [threads EXCEPT ![c] =
                 [pc |-> IF e.res = Pending THEN "loop" ELSE "done",
                  no_compile |-> nc,
                  compiled |-> e.compiled,
                  i |-> 1,
                  chain |-> <<>>,
                  err |-> NoResult,
                  log |-> e.log,
                  result |-> IF e.res = Pending THEN NoResult ELSE e.res,
                  overlap |-> FALSE]]
    /\ processed' = [processed EXCEPT ![c] = <<>>]
    /\ UNCHANGED <<objective, phase, call, result, log, psi4, madness>>

\* call c runs one iteration of the loop of __grad_objective
Iterate(c) ==
    LET t == threads[c]
        fr == [heap |-> heap, log |-> t.log, cache |-> LocalCache(processed, c),
               chain |-> t.chain, err |-> NoResult, inners |-> <<>>]
        f2 == ObjectiveIter(fr, t.compiled, t.i, TargetOf(c), ConcBackend)
    IN /\ t.pc = "loop"
       /\ t.err = NoResult
       /\ t.i <= Len(t.compiled.args)
       /\ heap' = f2.heap
       /\ processed' = [processed EXCEPT ![c] = f2.cache]
       /\ threads' = [threads EXCEPT ![c] =
              [t EXCEPT !.i = t.i + 1, !.chain = f2.chain, !.err = f2.err,
                        !.log = f2.log,
                        !.overlap = t.overlap
                            \/ \E d \in Calls \ {c} :
                                  threads[d].pc = "loop" /\ threads[d].i > 1]]
       /\ UNCHANGED <<objective, phase, call, result, log, psi4, madness>>

\* call c leaves the loop and returns dO or raises
Finish(c) ==
    LET t == threads[c] IN
    /\ t.pc = "loop"
    /\ t.err # NoResult \/ t.i > Len(t.compiled.args)
    /\ threads' = [threads EXCEPT ![c] =
           [t EXCEPT !.pc = "done",
                     !.result = ObjectiveResult([chain |-> t.chain, err |-> t.err])]]
    /\ UNCHANGED <<objective, heap, phase, call, result, log, processed, psi4, madness>>

NextConc == \E c \in Calls : Enter(c) \/ Iterate(c) \/ Finish(c)

SpecConc == InitConc /\ [][NextConc]_vars

\* ------------------------- QuantumChemistryPsi4.make_active_space_hamiltonian
\* the number of orbitals of each irrep
MaxIrrepOrbitals == 2

Irreps == <<"A1", "A2">>

\* self.orbitals: the orbitals sorted by energy, idx_total the position in
\* that order (here the irreps alternate: 0A1, 0A2, 1A1, 1A2, ...)
Orbitals ==
    [n \in 1..(MaxIrrepOrbitals * Len(Irreps)) |->
        [irrep |-> Irreps[((n - 1) % Len(Irreps)) + 1],
         idx_irrep |-> (n - 1) \div Len(Irreps),
         idx_total |-> n - 1,
         energy |-> n]]

\* self.orbitals_by_irrep[irrep]: the orbitals of the irrep, in the order of
\* self.orbitals
OrbitalsByIrrep(irrep) == SelectSeq(Orbitals, LAMBDA o : o.irrep = irrep)

\* str.upper() on the names of the irreps
Upper(key) ==
    CASE key = "a1" -> "A1"
      [] key = "a2" -> "A2"
      [] OTHER -> key

\* the loop over the items of the dictionary (lines 143-145), from the k-th
\* item on: idx is the list built so far
RECURSIVE IrrepLoop(_, _, _)
IrrepLoop(items, k, idx) ==
    IF k > Len(items) THEN idx
    ELSE IrrepLoop(items, k + 1,
                   [dict |-> FALSE, items |-> <<>>,
                    list |-> <<>> \o [n \in 1..Len(items[k].value) |->
                                 OrbitalsByIrrep(Upper(items[k].key))
                                     [items[k].value[n] + 1].idx_total]])

\* occ_idx / vir_idx of lines 141-149: a list is passed on as it is
AbsoluteIndices(space) ==
    IF space.dict THEN IrrepLoop(space.items, 1, space) ELSE space

\* the index lists an irrep can be given: increasing, not empty
IndexLists ==
    {q \in UNION {[1..n -> 0..(MaxIrrepOrbitals - 1)] : n \in 1..MaxIrrepOrbitals} :
        \A n \in 1..(Len(q) - 1) : q[n] < q[n + 1]}

IrrepKeys == {"A1", "a1", "A2"}

\* a dictionary: its items in the order of insertion, the keys distinct
\* (dict: isinstance(., dict); list: the elements when it is a list)
Dicts ==
    {[dict |-> TRUE, items |-> items, list |-> <<>>] :
        items \in {q \in UNION {[1..n -> [key : IrrepKeys, value : IndexLists]] :
                                    n \in 0..2} :
                       \A m, n \in 1..Len(q) : m # n => q[m].key # q[n].key}}

\* a list of spatial orbital indices
Lists ==
    {[dict |-> FALSE, items |-> <<>>, list |-> q] : q \in {<<0>>, <<0, 1>>, <<0, 1, 3>>}}

InitActive == InitObjective(NoResult, <<>>)

\* make_active_space_hamiltonian(occ, virt): result is what is passed on to
\* make_hamiltonian
MakeActiveSpaceHamiltonian ==
    /\ phase = "idle"
    /\ \E occ \in Dicts \cup Lists, virt \in Dicts \cup Lists :
          /\ call' = [occ |-> occ, virt |-> virt]
          /\ result' = [occupied_indices |-> AbsoluteIndices(occ),
                        active_indices |-> AbsoluteIndices(virt)]
    /\ phase' = "done"
    /\ UNCHANGED <<objective, heap, log, threads, processed, psi4, madness>>

\* the caller is done with the Hamiltonian
Release ==
    /\ phase = "done"
    /\ phase' = "idle"
    /\ call' = NoCall
    /\ result' = NoResult
    /\ UNCHANGED <<objective, heap, log, threads, processed, psi4, madness>>

NextActive == MakeActiveSpaceHamiltonian \/ Release

SpecActive == InitActive /\ [][NextActive]_vars

\* ------------------------------------- QuantumChemistryPsi4.compute_energy
\* the runs of psi4.energy a behaviour goes through
MaxRuns == 3

\* method names as callers write them
MethodNames == {"hf", "HF", "fci", "Fci"}

\* str.lower()
Lower(m) ==
    CASE m \in {"hf", "HF"} -> "hf"
      [] m \in {"fci", "Fci"} -> "fci"

\* what psi4.energy does: it raises, or it returns an energy and a wavefunction
EnergyValues == {1, 2}
Psi4Outcomes ==
    {[ok |-> FALSE, energy |-> 0]} \cup {[ok |-> TRUE, energy |-> e] : e \in EnergyValues}

\* {}
EmptyDict == [x \in {} |-> 0]

\* d[k] = val
Store(d, k, val) == [x \in DOMAIN d \cup {k} |-> IF x = k THEN val ELSE d[x]]

\* one run of psi4.energy: the name it is given, the method that asked for
\* it, and whether it returned
RunEvent(method, by, ok) ==
    [ev |-> "psi4.energy", name |-> Lower(method), by |-> by, ok |-> ok]

\* _run_psi4 (lines 262-267): p is the object, out what psi4.energy does
RunPsi4(p, lg, method, by, out) ==
    IF ~out.ok
    THEN [obj |-> p, log |-> Append(lg, RunEvent(method, by, FALSE)),
          res |-> Err("psi4.energy")]
    ELSE [obj |-> [p EXCEPT !.energies = Store(@, Lower(method), out.energy),
                            !.logs = Store(@, Lower(method), [wfn |-> out.energy])],
          log |-> Append(lg, RunEvent(method, by, TRUE)),
          res |-> [kind |-> "energy", value |-> out.energy]]

\* (the method looked up as the caller wrote it)
StoredExact(p, method) == method \in DOMAIN p.energies

\* method.lower() in self.energies (line 284)
Stored(p, method) == Lower(method) \in DOMAIN p.energies

\* compute_energy (lines 283-289)
ComputeEnergy(p, lg, method, out) ==
    IF Stored(p, method)
    THEN [obj |-> p, log |-> lg,
          res |-> [kind |-> "energy", value |-> p.energies[Lower(method)]]]
    ELSE IF p.has
    THEN RunPsi4(p, lg, method, "compute_energy", out)
    ELSE [obj |-> p, log |-> lg, res |-> Err("Can't find the psi4 python module")]

\* compute_amplitudes (lines 269-281)
ComputeAmplitudes(p, lg, method, out) ==
    IF p.has
    THEN LET Amplitudes(r) ==
                 [r EXCEPT !.res = IF IsErr(@) THEN @ ELSE [kind |-> "amplitudes"]]
         IN Amplitudes(RunPsi4(p, lg, method, "compute_amplitudes", out))
    ELSE [obj |-> p, log |-> lg, res |-> Err("Can't find the psi4 python module")]

\* before the construction: __HAS_PSI4_PYTHON__ is what the import gave
InitPsi4 ==
    \E has \in BOOLEAN :
        /\ objective = NoResult
        /\ heap = <<>>
        /\ phase = "idle"
        /\ call = NoCall
        /\ result = NoResult
        /\ log = <<>>
        /\ threads = [c \in Calls |-> IdleThread]
        /\ processed = [c \in Calls |-> <<>>]
        /\ psi4 = [pc |-> "new", has |-> has, energies |-> EmptyDict,
                   logs |-> EmptyDict]
        /\ madness = NoObject

\* __init__ (lines 49-58): the empty histories, then the base class makes
\* the molecule, which asks for the energy of "hf" (line 159) and reads
\* logs['hf']; a failure leaves no object
Construct ==
    /\ psi4.pc = "new"
    /\ Len(log) < MaxRuns
    /\ \E out \in Psi4Outcomes :
          LET Made(r) ==
                  /\ psi4' = IF IsErr(r.res) THEN psi4
                             ELSE [r.obj EXCEPT !.pc = "ready"]
                  /\ log' = r.log
                  /\ result' = IF IsErr(r.res) THEN r.res ELSE [kind |-> "object"]
          IN Made(ComputeEnergy([psi4 EXCEPT !.energies = EmptyDict,
                                             !.logs = EmptyDict], log, "hf", out))
    /\ call' = [op |-> "__init__", method |-> "hf"]
    /\ UNCHANGED <<objective, heap, phase, threads, processed, madness>>

\* a call of compute_energy(method) on the object
CallComputeEnergy ==
    /\ psi4.pc = "ready"
    /\ \E method \in MethodNames, out \in Psi4Outcomes :
          LET Returned(r) ==
                  /\ psi4' = r.obj
                  /\ log' = r.log
                  /\ result' = r.res
          IN /\ Stored(psi4, method) \/ Len(log) < MaxRuns
             /\ call' = [op |-> "compute_energy", method |-> method]
             /\ Returned(ComputeEnergy(psi4, log, method, out))
    /\ UNCHANGED <<objective, heap, phase, threads, processed, madness>>

\* a call of compute_amplitudes(method) on the object
CallComputeAmplitudes ==
    /\ psi4.pc = "ready"
    /\ Len(log) < MaxRuns
    /\ \E method \in MethodNames, out \in Psi4Outcomes :
          LET Returned(r) ==
                  /\ psi4' = r.obj
                  /\ log' = r.log
                  /\ result' = r.res
          IN /\ call' = [op |-> "compute_amplitudes", method |-> method]
             /\ Returned(ComputeAmplitudes(psi4, log, method, out))
    /\ UNCHANGED <<objective, heap, phase, threads, processed, madness>>

NextPsi4 == Construct \/ CallComputeEnergy \/ CallComputeAmplitudes

SpecPsi4 == InitPsi4 /\ [][NextPsi4]_vars

\* ------------------------------------------ QuantumChemistryMadness.__init__
\* a file of the working directory: absent, unusable, or usable
FileStates == {"none", "bad", "good"}

\* what the run of the executable does: write_madness_input or the call
\* raises, or the executable ends with a status other than 0, or with 0
RunOutcomes == {"raise", "nonzero", "zero"}

\* h == "failed" or g == "failed" (lines 79, 87, 102)
TensorMissingH(h, g) == h = "failed"

TensorMissing(h, g) == h = "failed" \/ g = "failed"

\* numpy.load / numpy.fromfile with the conversion, in a try: the array, or
\* "failed"
Load(file) == IF file = "good" THEN "tensor" ELSE "failed"

\* one step of the construction: what was done, the tensors before and the
\* tensors after
Step(m, name, h, g) ==
    [step |-> name, before |-> <<m.h, m.g>>, after |-> <<h, g>>]

\* the two "found ..." lines of the status report (lines 88-89, 103-104):
\* both report h
Found(h, g) == <<[key |-> "htensor", found |-> h # "failed"],
                 [key |-> "gtensor", found |-> h # "failed"]>>

\* before the construction: the arguments and the working directory
InitMadness ==
    \E n_pno \in BOOLEAN, executable \in BOOLEAN,
       nh \in FileStates, ng \in FileStates, bh \in FileStates, bg \in FileStates :
        /\ objective = NoResult
        /\ heap = <<>>
        /\ phase = "idle"
        /\ call = NoCall
        /\ result = NoResult
        /\ log = <<>>
        /\ threads = [c \in Calls |-> IdleThread]
        /\ processed = [c \in Calls |-> <<>>]
        /\ psi4 = NoObject
        /\ madness = [pc |-> "start", n_pno |-> n_pno, executable |-> executable,
                      npy |-> [h |-> nh, g |-> ng], bin |-> [h |-> bh, g |-> bg],
                      h |-> "none", g |-> "none", status |-> <<>>, steps |-> <<>>,
                      error |-> ""]

Others == <<objective, heap, phase, call, result, log, threads, processed, psi4>>

\* lines 78-79: n_pno is None, read_tensors (lines 187-202)
ReadTensors ==
    /\ madness.pc = "start"
    /\ ~madness.n_pno
    /\ LET h == Load(madness.npy.h)
           g == Load(madness.npy.g)
       IN madness' = [madness EXCEPT
                         !.h = h, !.g = g,
                         !.steps = Append(@, Step(madness, "read", h, g)),
                         !.pc = IF TensorMissing(h, g) THEN "convert" ELSE "check"]
    /\ UNCHANGED Others

\* lines 83-85: n_pno is given
SkipFiles ==
    /\ madness.pc = "start"
    /\ madness.n_pno
    /\ madness' = [madness EXCEPT !.h = "failed", !.g = "failed", !.pc = "check"]
    /\ UNCHANGED Others

\* convert_madness_output_from_bin_to_npy (lines 411-432): each tensor is
\* read from its binary file, reshaped and saved as .npy, or is "failed"
Converted(m, name) ==
    LET h == Load(m.bin.h)
        g == Load(m.bin.g)
    IN [m EXCEPT !.h = h, !.g = g,
                 !.npy = [h |-> IF h = "tensor" THEN "good" ELSE m.npy.h,
                          g |-> IF g = "tensor" THEN "good" ELSE m.npy.g],
                 !.steps = Append(@, Step(m, name, h, g))]

\* lines 80-82: madness may have been run by hand, without the conversion
ConvertExisting ==
    /\ madness.pc = "convert"
    /\ madness' = [Converted(madness, "convert") EXCEPT !.pc = "check"]
    /\ UNCHANGED Others

\* line 87, a tensor is there: the construction goes on (line 112)
Proceed ==
    /\ madness.pc = "check"
    /\ ~TensorMissing(madness.h, madness.g)
    /\ madness' = [madness EXCEPT !.pc = "ready"]
    /\ UNCHANGED Others

\* lines 87-99 and run_madness (lines 172-185): without an executable
\* run_madness returns a message, and int() of it raises; every exception
\* ends in the status report
RunMadness ==
    /\ madness.pc = "check"
    /\ TensorMissing(madness.h, madness.g)
    /\ \E out \in RunOutcomes, bh \in FileStates, bg \in FileStates :
          /\ ~madness.executable =>
                 out = "raise" /\ bh = madness.bin.h /\ bg = madness.bin.g
          /\ madness' = [madness EXCEPT
                 !.bin = [h |-> bh, g |-> bg],
                 !.status = @ \o Found(madness.h, madness.g)
                              \o <<[key |-> IF out = "raise" THEN "madness_run"
                                            ELSE "madness",
                                    found |-> out = "zero"]>>,
                 !.steps = Append(@, [step |-> "run", out |-> out,
                                      before |-> <<madness.h, madness.g>>,
                                      after |-> <<madness.h, madness.g>>]),
                 !.pc = "converting"]
    /\ UNCHANGED Others

\* lines 101-111: the conversion after the run, and the error when a tensor
\* is still missing
ConvertAfterRun ==
    /\ madness.pc = "converting"
    /\ LET Checked(m) ==
               [m EXCEPT !.status = @ \o Found(m.h, m.g),
                         !.pc = IF TensorMissing(m.h, m.g) THEN "failed" ELSE "ready",
                         !.error = IF TensorMissing(m.h, m.g)
                                   THEN "Could not initialize the madness interface"
                                   ELSE ""]
       IN madness' = Checked(Converted(madness, "convert after run"))
    /\ UNCHANGED Others

NextMadness ==
    \/ ReadTensors
    \/ SkipFiles
    \/ ConvertExisting
    \/ Proceed
    \/ RunMadness
    \/ ConvertAfterRun

SpecMadness == InitMadness /\ [][NextMadness]_vars

\* ------------------------------------------------- the values of results
\* the heap before the call
SourceGates == SubSeq(heap, 1, Cardinality(SourceIds))

\* what an expectation value leaf evaluates: its gates' contents and its H
Key(term, h) == << [j \in 1..Len(term.U) |-> h[term.U[j]]], term.H >>
ConstKey == << <<>>, 0 >>

OuterValue(outer) ==
    IF outer = One THEN 1 ELSE Coefficient(outer.T, outer.partial)

RECURSIVE SumSeq(_)
SumSeq(q) == IF q = <<>> THEN 0 ELSE Head(q) + SumSeq(Tail(q))

\* the leaves a result is a combination of
RECURSIVE Keys(_, _)
Keys(res, h) ==
    CASE res.kind = "sum" -> {Key(res.terms[k], h) : k \in 1..Len(res.terms)}
      [] res.kind = "chain" ->
           UNION {Keys(res.chain[k].inner, h) : k \in 1..Len(res.chain)}
      [] res.kind = "one" -> {ConstKey}
      [] OTHER -> {}

\* the coefficient of a leaf in the value of a result: a result evaluates to
\* the sum over its leaves of coefficient times the leaf's value
RECURSIVE Coef(_, _, _)
Coef(res, h, key) ==
    CASE res.kind = "sum" ->
           SumSeq([k \in 1..Len(res.terms) |->
                      IF Key(res.terms[k], h) = key THEN res.terms[k].w ELSE 0])
      [] res.kind = "chain" ->
           SumSeq([k \in 1..Len(res.chain) |->
                      OuterValue(res.chain[k].outer)
                          * Coef(res.chain[k].inner, h, key)])
      [] res.kind = "one" -> IF key = ConstKey THEN 1 ELSE 0
      [] OTHER -> 0

\* a node / a result with the gate references replaced by the gates
RECURSIVE DerefNode(_, _)
DerefNode(node, h) ==
    CASE node.t = "E" -> [node EXCEPT !.U = [j \in 1..Len(node.U) |-> h[node.U[j]]]]
      [] node.t = "V" -> node
      [] node.t = "O" ->
           [node EXCEPT !.args =
               [i \in 1..Len(node.args) |-> DerefNode(node.args[i], h)]]

RECURSIVE Deref(_, _)
Deref(res, h) ==
    CASE res.kind = "sum" ->
           [res EXCEPT !.terms = [k \in 1..Len(res.terms) |->
               [res.terms[k] EXCEPT !.U =
                   [j \in 1..Len(res.terms[k].U) |-> h[res.terms[k].U[j]]]]]]
      [] res.kind = "chain" ->
           [res EXCEPT !.chain = [k \in 1..Len(res.chain) |->
               [outer |-> IF res.chain[k].outer = One THEN One
                          ELSE [res.chain[k].outer EXCEPT !.args =
                                   [i \in 1..Len(res.chain[k].outer.args) |->
                                       DerefNode(res.chain[k].outer.args[i], h)]],
                inner |-> Deref(res.chain[k].inner, h)]]]
      [] res.kind = "map" ->
           [res EXCEPT !.map = [k \in DOMAIN res.map |-> Deref(res.map[k], h)]]
      [] OTHER -> res

\* the call has ended and was a call for one variable / for all variables
DoneOne == phase = "done" /\ call.variable # None
DoneAll == phase = "done" /\ call.variable = None

\* grad for variable k run on its own on the objective of the state
Alone(o, k) ==
    GradVariable(SourceGates, <<>>, o, k, call.no_compile, call.backend, call.drop)

LeafEvents == {i \in 1..Len(log) : log[i].ev = "leaf"}

\* --------------------------------------------------------------- the claims

\* C1: for a variable v that is not among the variables of the objective,
\* grad(O, v) returns the literal 0.0, without an error, without a compiler
\* run and without differentiating any expectation value.
C1_ZeroOnAbsentVariable ==
    (DoneOne /\ call.variable \notin ExtractVariables(heap, objective))
        => (result = Zero /\ log = <<>> /\ heap = SourceGates)

C1_Witness ==
    /\ DoneOne
    /\ call.variable \notin ExtractVariables(heap, objective)
    /\ ExtractVariables(heap, objective) # {}
    /\ result = Zero

\* C2: grad(O) without a target variable ends in an error exactly when O has
\* no variables or grad(O, k) fails for one of them; otherwise it returns a
\* mapping whose keys are exactly extract_variables(O) and whose value at k
\* is the result of grad(O, k) under the same no_compile.
C2_AllVariablesMap ==
    DoneAll =>
        LET vs == ExtractVariables(heap, objective) IN
        /\ IsErr(result) <=> (vs = {} \/ \E k \in vs : IsErr(Alone(objective, k).res))
        /\ ~IsErr(result) =>
              /\ result.kind = "map"
              /\ DOMAIN result.map = vs
              /\ \A k \in vs :
                    Deref(result.map[k], heap)
                        = Deref(Alone(objective, k).res, Alone(objective, k).heap)

C2_Witness ==
    /\ DoneAll
    /\ result.kind = "map"
    /\ DOMAIN result.map = {"a", "b"}
    /\ result.map["a"].kind = "chain"
    /\ call.no_compile

\* C3: unless no_compile is set, the compiler runs before any differentiation
\* and every expectation value the leaf differentiator is applied to comes
\* from the compiler's output.
C3_LeavesAreCompiled ==
    (phase = "done" /\ ~call.no_compile) =>
        \A i \in LeafEvents :
            /\ log[i].origin = "compiled"
            /\ \E j \in 1..(i - 1) : log[j].ev = "compile" /\ log[j].var = log[i].var

\* the occurrences of v in the unitaries of o have a controlled gate
ControlledOccurrence(o, v) ==
    \E e \in ExpectationValues(o) :
        \E i \in 1..Len(e.U) : heap[e.U[i]].var = v /\ heap[e.U[i]].ctrl

\* C4: with no_compile set, differentiating an objective with a controlled
\* gate among the occurrences of the target variable raises an error.
C4_ControlledGateRaises ==
    (DoneOne /\ call.no_compile /\ ControlledOccurrence(objective, call.variable))
        => IsErr(result)

C4_Witness ==
    /\ DoneOne
    /\ call.no_compile
    /\ ControlledOccurrence(objective, call.variable)
    /\ IsErr(result)
    /\ result.msg = "controlled gate in gradient: Compiler was not called"
    /\ objective.t = "O"
    /\ Len(log) > 1

\* the objective is E + E for one expectation value E
IsDoubled(o) ==
    /\ o.t = "O"
    /\ o.T = "sum"
    /\ Len(o.args) = 2
    /\ o.args[1].t = "E"
    /\ o.args[2] = o.args[1]

\* C5: for an expectation value E and a variable v of E, grad(E + E, v) is
\* twice grad(E, v): every leaf of the result has twice the coefficient it
\* has in grad(E, v); with a backend configured the one call fails exactly
\* when the other does.
C5_DoubledIsTwice ==
    (DoneOne /\ IsDoubled(objective)
        /\ call.variable \in ExtractVariables(heap, objective)) =>
        LET single == Alone(Wrap(objective.args[1]), call.variable) IN
        /\ BackendAvailable(call.backend) => (IsErr(result) <=> IsErr(single.res))
        /\ ~IsErr(result) =>
              /\ ~IsErr(single.res)
              /\ \A key \in Keys(result, heap) \cup Keys(single.res, single.heap) :
                    Coef(result, heap, key) = 2 * Coef(single.res, single.heap, key)

C5_Witness ==
    /\ DoneOne
    /\ IsDoubled(objective)
    /\ result.kind = "chain"
    /\ Len(result.chain) = 2
    /\ Cardinality(LeafEvents) = 1
    /\ \E key \in Keys(result, heap) : Coef(result, heap, key) = 2

\* the objective is a1 A1 + a2 A2 + ... of objectives Ai of one leaf each
IsLinearCombination(o) ==
    /\ o.t = "O"
    /\ o.T \in {"sum", "lin"}
    /\ Len(o.args) >= 2
    /\ \A i \in 1..Len(o.args) : o.args[i].t \in {"E", "V"}

\* C6: whenever grad(alpha A + beta B, v) returns, its value is alpha times
\* the value of grad(A, v) plus beta times the value of grad(B, v): every
\* leaf has the combined coefficient; grad(A, v) and grad(B, v) return too
\* unless the compiler is defective.
C6_Linearity ==
    (DoneOne /\ IsLinearCombination(objective) /\ ~IsErr(result)) =>
        LET n == Len(objective.args)
            part == [i \in 1..n |-> Alone(Wrap(objective.args[i]), call.variable)]
        IN /\ ~call.drop => \A i \in 1..n : ~IsErr(part[i].res)
           /\ (\A i \in 1..n : ~IsErr(part[i].res)) =>
                 \A key \in Keys(result, heap)
                       \cup UNION {Keys(part[i].res, part[i].heap) : i \in 1..n} :
                    Coef(result, heap, key)
                        = SumSeq([i \in 1..n |->
                                     Coefficient(objective.T, i)
                                         * Coef(part[i].res, part[i].heap, key)])

C6_Witness ==
    /\ DoneOne
    /\ IsLinearCombination(objective)
    /\ objective.T = "lin"
    /\ objective.args[1] # objective.args[2]
    /\ result.kind = "chain"
    /\ Len(result.chain) = 2
    /\ \E key \in Keys(result, heap) : Coef(result, heap, key) = -1
    /\ \E key \in Keys(result, heap) : Coef(result, heap, key) = 2

\* C7: a grad call leaves its inputs unchanged: the objective, the gate
\* sequences of its unitaries and every gate that existed before the call
\* are after each step what they were before it.
C7_InputsUnchanged ==
    [][/\ objective' = objective
       /\ \A id \in SourceIds : heap'[id] = heap[id]]_vars

C7_Witness ==
    /\ DoneOne
    /\ result.kind = "sum"
    /\ Len(heap) > Cardinality(SourceIds)
    /\ \E k \in 1..Len(result.terms) :
          \E j \in 1..Len(result.terms[k].U) :
              /\ result.terms[k].U[j] \notin SourceIds
              /\ heap[result.terms[k].U[j]].off # 0

\* C9: grad without a target variable on an objective without variables
\* raises an error; it returns no mapping.
C9_NoVariablesRaises ==
    (DoneAll /\ ExtractVariables(heap, objective) = {}) =>
        (IsErr(result) /\ result.msg = "Error in gradient: Objective has no variables")

C9_Witness ==
    /\ DoneAll
    /\ ExtractVariables(heap, objective) = {}
    /\ IsErr(result)

\* the target variable is a variable of the objective but not of what the
\* compiler made of it
LostInCompilation ==
    /\ DoneOne
    /\ ~call.no_compile
    /\ call.variable \in ExtractVariables(heap, objective)
    /\ LET c == Compile(SourceGates, objective, call.variable, call.drop)
       IN call.variable \notin ExtractVariables(c.heap, c.compiled)

\* C10: if the target variable is a variable of the objective but not of the
\* compiler's output, grad raises an error before any differentiation; it
\* does not return 0.0.
C10_LostVariableRaises ==
    LostInCompilation =>
        /\ IsErr(result)
        /\ result.msg = "Error in taking gradient. Objective does not depend on variable"
        /\ LeafEvents = {}

C10_Witness ==
    /\ LostInCompilation
    /\ IsErr(result)
    /\ Len(log) = 1
    /\ log[1].ev = "compile"

\* the runs of the leaf differentiator on an expectation value whose unitary
\* fails verify()
InvalidLeafEvents == {i \in LeafEvents : ~log[i].valid}

\* C11: differentiating an expectation value whose unitary fails its validity
\* check raises an error and makes no derivative, whatever the target
\* variable is; the grad call ends in that error.
C11_InvalidUnitaryRaises ==
    /\ \A i \in InvalidLeafEvents : log[i].out = "error" /\ log[i].made = 0
    /\ (phase = "done" /\ InvalidLeafEvents # {}) =>
           result = Err("error in grad_expectationvalue")

C11_Witness ==
    /\ DoneOne
    /\ \E i \in InvalidLeafEvents : ~log[i].depends /\ log[i].var = "b"
    /\ IsErr(result)

\* the node grad is called on is neither an expectation value nor an Objective
IsOtherNode(o) == o.t \notin {"E", "O"}

UnsupportedTypeRaised ==
    /\ IsErr(result)
    /\ result.msg = "Gradient not implemented for other types than ExpectationValue and Objective."

Listed(space) ==
    UNION {{OrbitalsByIrrep(Upper(space.items[k].key))
                [space.items[k].value[n] + 1].idx_total :
                    n \in 1..Len(space.items[k].value)} :
           k \in 1..Len(space.items)}

\* the indices of an index list
IndexSet(idx) ==
    IF idx.dict THEN {} ELSE {idx.list[n] : n \in 1..Len(idx.list)}

\* C14: make_active_space_hamiltonian given occ (or virt) as a dictionary
\* from irreps to index lists passes on an index list that contains the
\* total index of every (irrep, index) entry of every key.
C14_AllIrrepsListed ==
    phase = "done" =>
        /\ call.occ.dict => Listed(call.occ) \subseteq IndexSet(result.occupied_indices)
        /\ call.virt.dict => Listed(call.virt) \subseteq IndexSet(result.active_indices)

\* C15: within one grad call the leaf differentiator runs at most once per
\* distinct expectation value and target variable, also when the expectation
\* value is an argument of different (nested) Objective nodes.
C15_LeafOncePerExpectationValue ==
    phase = "done" =>
        \A i, j \in LeafEvents :
            (log[i].id = log[j].id /\ log[i].var = log[j].var) => i = j

\* an argument that is an Objective and does not depend on v
IsIndependentSubObjective(arg, v) ==
    arg.t = "O" /\ v \notin ExtractVariables(heap, arg)

\* the objective without its arguments that are Objectives not depending on v
Pruned(o, v) ==
    [o EXCEPT !.args = SelectSeq(o.args,
                                 LAMBDA arg : ~IsIndependentSubObjective(arg, v))]

\* C16: an argument that is an Objective not depending on the target variable
\* has the inner factor zero and its term is dropped: grad of the enclosing
\* objective, which depends on the variable through another argument,
\* succeeds whenever it succeeds without that argument.
C16_IndependentSubObjectiveDropped ==
    (/\ DoneOne
     /\ objective.t = "O"
     /\ BackendAvailable(call.backend)
     /\ \E i \in 1..Len(objective.args) :
            IsIndependentSubObjective(objective.args[i], call.variable)
     /\ call.variable \in ExtractVariables(heap, Pruned(objective, call.variable))
     /\ ~IsErr(Alone(Pruned(objective, call.variable), call.variable).res))
        => ~IsErr(result)

\* a grad call for one variable, without compilation, that hands an
\* expectation value of the input to the leaf differentiator (lines 54-57)
IsLeafCall ==
    /\ DoneOne
    /\ call.no_compile
    /\ objective.t = "E" \/ IsExpectationvalue(objective)

\* the expectation value of a leaf call
LeafOf(o) == IF o.t = "E" THEN o ELSE o.args[Len(o.args)]

\* the positions of the target variable in the unitary of the leaf call
Occurrences == ParameterMap(SourceGates, LeafOf(objective).U, call.variable)

\* the terms of the result made for the gate at position p: the unitary of
\* the leaf with another gate at p
Contribution(p) ==
    SelectSeq(result.terms, LAMBDA term : term.U[p] # LeafOf(objective).U[p])

\* term is weight times the expectation value of H over U with position p
\* replaced by a new gate of the contents g
IsShiftedTerm(term, p, weight, g) ==
    /\ term.w = weight
    /\ term.H = LeafOf(objective).H
    /\ Len(term.U) = Len(LeafOf(objective).U)
    /\ \A q \in 1..Len(term.U) : q # p => term.U[q] = LeafOf(objective).U[q]
    /\ term.U[p] \notin SourceIds
    /\ heap[term.U[p]] = g

\* the leaf call is on a valid unitary that depends on the target variable,
\* none of the occurrences is controlled, and every occurrence without a
\* shifted-gate list has a shift constant
IsShiftable ==
    /\ IsLeafCall
    /\ LeafOf(objective).valid
    /\ Occurrences # <<>>
    /\ \A k \in 1..Len(Occurrences) :
          LET g == SourceGates[LeafOf(objective).U[Occurrences[k]]] IN
          /\ ~g.ctrl
          /\ ~g.sg => g.shift # 0

\* C17: for every gate with a shifted-gate list, with or without a shift
\* constant, the contribution is the sum over the (weight, shifted gate)
\* pairs of weight times the expectation value with the gate replaced by
\* the shifted gate; the gate is not rejected.
C17_GeneralizedRule ==
    IsShiftable =>
        /\ result.kind = "sum"
        /\ \A k \in 1..Len(Occurrences) :
              LET p == Occurrences[k]
                  g == SourceGates[LeafOf(objective).U[p]]
                  pairs == ShiftedGates(g)
              IN g.sg =>
                    /\ Len(Contribution(p)) = Len(pairs)
                    /\ \A n \in 1..Len(pairs) :
                          IsShiftedTerm(Contribution(p)[n], p, pairs[n].w,
                                        [g EXCEPT !.off = g.off + pairs[n].d])

TermsOf(g) == IF g.sg THEN Len(ShiftedGates(g)) ELSE 2

\* the contributions of the occurrences from the k-th on, one after the other
RECURSIVE Contributions(_)
Contributions(k) ==
    IF k > Len(Occurrences) THEN <<>>
    ELSE Contribution(Occurrences[k]) \o Contributions(k + 1)

\* C19: for a variable occurring in k gates of the unitary (k >= 1) the
\* derivative is the sum of exactly k contributions, one for each occurrence
\* of the parameter map, in its order, none skipped, none counted twice.
C19_OneContributionPerOccurrence ==
    (IsLeafCall /\ result.kind = "sum" /\ Len(Occurrences) >= 1) =>
        /\ Len(result.terms) >= Len(Occurrences)
        /\ result.terms = Contributions(1)
        /\ \A k \in 1..Len(Occurrences) :
              Len(Contribution(Occurrences[k]))
                  = TermsOf(SourceGates[LeafOf(objective).U[Occurrences[k]]])
        /\ \A n \in 1..Len(result.terms) :
              Cardinality({q \in 1..Len(LeafOf(objective).U) :
                              result.terms[n].U[q] # LeafOf(objective).U[q]}) = 1

C19_Witness ==
    /\ IsLeafCall
    /\ result.kind = "sum"
    /\ Len(Occurrences) = MaxGates
    /\ \E k \in 1..Len(Occurrences) :
          SourceGates[LeafOf(objective).U[Occurrences[k]]].sg
    /\ \E k \in 1..Len(Occurrences) :
          ~SourceGates[LeafOf(objective).U[Occurrences[k]]].sg

\* C20 as stated: whenever the leaf differentiator is applied to an
\* expectation value and a variable its unitary does not depend on, it
\* yields the literal 0.0, raises no error and makes no expectation values.
C20_AbsentVariableAlwaysZero ==
    \A i \in LeafEvents :
        ~log[i].depends => (log[i].out = "zero" /\ log[i].made = 0)

\* C20: whenever the leaf differentiator is applied to an expectation value
\* whose unitary passes verify() and a variable the unitary does not depend
\* on, it yields the literal 0.0, raises no error and makes no expectation
\* values, also for an argument of an Objective of several arguments.
C20_AbsentVariableZero ==
    \A i \in LeafEvents :
        (log[i].valid /\ ~log[i].depends) =>
            (log[i].out = "zero" /\ log[i].made = 0)

C20_Witness ==
    /\ DoneOne
    /\ objective.t = "O"
    /\ Len(objective.args) > 1
    /\ result.kind = "chain"
    /\ \E i \in LeafEvents :
          log[i].valid /\ ~log[i].depends /\ log[i].out = "zero"

\* the runs of __grad_objective of the call
ObjectiveEvents == {i \in 1..Len(log) : log[i].ev = "objective"}

\* a grad call for one variable, without compilation, that hands the input
\* objective to the chain-rule accumulator (lines 58-59)
IsAccumulatorCall ==
    /\ DoneOne
    /\ call.no_compile
    /\ objective.t = "O"
    /\ ~IsExpectationvalue(objective)
    /\ call.variable \in ExtractVariables(heap, objective)

\* the inner factor of the i-th argument of the objective, computed on its own
InnerAlone(i) ==
    GradInner(SourceGates, <<>>, objective.args[i], call.variable, call.backend)

\* the arguments of the objective whose inner factor is not the literal zero
NonZeroArguments ==
    SelectSeq([i \in 1..Len(objective.args) |-> i],
              LAMBDA i : InnerAlone(i).res # Zero)

\* C21: the Objective returned by the chain-rule accumulator has one term
\* for each argument whose inner factor is not the literal zero, in the
\* order of the arguments, and none for the others: its inner factors are
\* those of these arguments, none of them is zero, and every run of the
\* accumulator that returns has as many terms as non-zero inner factors.
C21_TermIffNonZeroInner ==
    /\ (IsAccumulatorCall /\ result.kind = "chain") =>
           /\ Len(result.chain) = Len(NonZeroArguments)
           /\ \A k \in 1..Len(result.chain) :
                  /\ result.chain[k].inner # Zero
                  /\ k <= Len(NonZeroArguments) =>
                         Deref(result.chain[k].inner, heap)
                             = Deref(InnerAlone(NonZeroArguments[k]).res,
                                     InnerAlone(NonZeroArguments[k]).heap)
    /\ \A e \in ObjectiveEvents :
           log[e].out = "chain" =>
               /\ Len(log[e].inners) = log[e].n
               /\ log[e].terms
                      = Cardinality({i \in 1..log[e].n : log[e].inners[i] # "zero"})

C21_Witness ==
    /\ IsAccumulatorCall
    /\ result.kind = "chain"
    /\ Len(objective.args) = 2
    /\ NonZeroArguments = <<2>>
    /\ Len(result.chain) = 1
    /\ result.chain[1].inner.kind = "sum"

\* the run went through all its arguments and dropped every inner factor
AllDroppedAsZero(e) ==
    /\ Len(e.inners) = e.n
    /\ \A i \in 1..e.n : e.inners[i] = "zero"

C23_OuterTimesInner ==
    (IsAccumulatorCall /\ result.kind = "chain"
         /\ Len(result.chain) = Len(NonZeroArguments)) =>
        \A k \in 1..Len(result.chain) :
            /\ DOMAIN result.chain[k] = {"outer", "inner"}
            /\ Deref(result.chain[k].inner, heap)
                   = Deref(InnerAlone(NonZeroArguments[k]).res,
                           InnerAlone(NonZeroArguments[k]).heap)
            /\ result.chain[k].outer
                   = IF objective.T = "none" THEN One
                     ELSE [kind |-> "outer", args |-> objective.args,
                           T |-> objective.T, partial |-> NonZeroArguments[k]]

C23_Witness ==
    /\ IsAccumulatorCall
    /\ result.kind = "chain"
    /\ objective.T = "lin"
    /\ NonZeroArguments = <<1, 2>>
    /\ result.chain[2].outer.partial = 2
    /\ result.chain[2].outer.args = objective.args

C23_WitnessNoTransformation ==
    /\ IsAccumulatorCall
    /\ result.kind = "chain"
    /\ objective.T = "none"
    /\ result.chain[1].outer = One

\* the term has the observable of the leaf and its unitary, except at the
\* position p of the gate g, where it has a new gate that is g with another
\* parameter
IsShiftedLeaf(term, p) ==
    LET E == LeafOf(objective)
        g == SourceGates[E.U[p]]
    IN /\ term.H = E.H
       /\ Len(term.U) = Len(E.U)
       /\ \A q \in 1..Len(E.U) : q # p => term.U[q] = E.U[q]
       /\ term.U[p] # E.U[p]
       /\ term.U[p] \notin SourceIds
       /\ heap[term.U[p]] # g
       /\ heap[term.U[p]].off # g.off
       /\ [heap[term.U[p]] EXCEPT !.off = g.off] = g

\* C24: every expectation value of a derivative returned by the leaf
\* differentiator has the observable H of the differentiated expectation
\* value and a circuit equal to U at every position but one, the position i
\* of an occurrence of the variable, where it holds a shifted gate: a new
\* gate with another parameter, not the gate g of U.
C24_LeavesOverShiftedCircuits ==
    (IsLeafCall /\ result.kind = "sum") =>
        \A n \in 1..Len(result.terms) :
            \E k \in 1..Len(Occurrences) :
                IsShiftedLeaf(result.terms[n], Occurrences[k])

C24_Witness ==
    /\ IsLeafCall
    /\ result.kind = "sum"
    /\ Len(LeafOf(objective).U) = MaxGates
    /\ Len(Occurrences) = 1
    /\ Len(result.terms) = 2
    /\ IsShiftedLeaf(result.terms[1], Occurrences[1])
    /\ IsShiftedLeaf(result.terms[2], Occurrences[1])
    /\ result.terms[1].U # result.terms[2].U

\* C25: without an automatic-differentiation backend every run of the
\* chain-rule accumulator ends at its first argument in the error "Can't
\* differentiate without autograd or jax": no inner factor has been
\* obtained, no expectation value differentiated, no term accumulated, and
\* the call returns the error, not a partial result.
C25_NoBackendFailsAtFirstArgument ==
    (phase = "done" /\ call.backend = "none" /\ ObjectiveEvents # {}) =>
        /\ result = Err("Can't differentiate without autograd or jax")
        /\ LeafEvents = {}
        /\ Cardinality(ObjectiveEvents) = 1
        /\ \A e \in ObjectiveEvents :
               /\ log[e].n >= 1
               /\ log[e].inners = <<>>
               /\ log[e].terms = 0
               /\ log[e].out = "error"
               /\ log[e].msg = "Can't differentiate without autograd or jax"

C25_Witness ==
    /\ DoneOne
    /\ call.backend = "none"
    /\ ObjectiveEvents # {}
    /\ Len(objective.args) = MaxArgs
    /\ objective.T = "lin"
    /\ \A i \in 1..Len(objective.args) :
           call.variable \in ExtractVariables(heap, objective.args[i])
    /\ result = Err("Can't differentiate without autograd or jax")

\* a leaf call on a valid unitary that lists the target variable among its
\* variables and has no occurrence of it in its parameter map
IsUnmappedCall ==
    /\ IsLeafCall
    /\ LeafOf(objective).valid
    /\ call.variable \in ExtractVariables(SourceGates, LeafOf(objective))
    /\ Occurrences = <<>>

\* C26: differentiating an expectation value for a variable that is among
\* the variables of its unitary and has no occurrence in the parameter map
\* of the unitary ends in an error; it returns neither zero nor an Objective
\* without terms.
C26_NoOccurrenceFails ==
    IsUnmappedCall => IsErr(result)

\* the runs of psi4.energy for the name that compute_energy started and
\* that stored an energy
StoringRuns(name) ==
    {i \in 1..Len(log) : /\ log[i].ev = "psi4.energy"
                         /\ log[i].by = "compute_energy"
                         /\ log[i].ok
                         /\ log[i].name = name}

\* C27: at every time the methods with a stored energy are the methods with
\* a stored log; for every method name in lower case at most one run of
\* the external program started by compute_energy has stored an energy; and
\* a compute_energy call for a method whose energy is stored, however the
\* name is capitalized, returns the stored value and leaves the run history
\* and the object as they were.
C27_EnergyStoredOnce ==
    /\ [](psi4.pc # "none" => DOMAIN psi4.energies = DOMAIN psi4.logs)
    /\ [](\A m \in MethodNames : Cardinality(StoringRuns(Lower(m))) <= 1)
    /\ [][(/\ psi4.pc = "ready"
           /\ call'.op = "compute_energy"
           /\ Lower(call'.method) \in DOMAIN psi4.energies)
              => /\ result' = [kind |-> "energy",
                               value |-> psi4.energies[Lower(call'.method)]]
                 /\ log' = log
                 /\ psi4' = psi4]_vars

C27_Witness ==
    /\ psi4.pc = "ready"
    /\ DOMAIN psi4.logs = {"hf", "fci"}
    /\ call = [op |-> "compute_energy", method |-> "Fci"]
    /\ result = [kind |-> "energy", value |-> psi4.energies["fci"]]
    /\ Len(log) = 2
    /\ log[2] = RunEvent("fci", "compute_amplitudes", TRUE)

\* one of the two tensors is "failed"
Missing(hg) == hg[1] = "failed" \/ hg[2] = "failed"

\* the steps of the construction, by name
StepNames == [i \in 1..Len(madness.steps) |-> madness.steps[i].step]

IsPrefix(s, t) == Len(s) <= Len(t) /\ \A i \in 1..Len(s) : s[i] = t[i]

\* C28: the construction of the madness interface goes through its steps in
\* the order read, convert, run, convert after run; it reads and converts
\* existing files only when n_pno is not given, and with n_pno given it
\* starts with the run; every step after the first is taken only when a
\* tensor was missing after the step before it (the conversion after the
\* run follows every run, whatever the run did); a run that raises is
\* entered in the status report and followed by the conversion; and the
\* construction ends in the error 'Could not initialize the madness
\* interface' exactly when a tensor is missing after the conversion that
\* follows the run, and goes on only with both tensors.
C28_OrderedFallback ==
    madness.pc # "none" =>
        LET st == madness.steps
            n == Len(st)
        IN /\ IF madness.n_pno
              THEN IsPrefix(StepNames, <<"run", "convert after run">>)
              ELSE IsPrefix(StepNames,
                            <<"read", "convert", "run", "convert after run">>)
           /\ \A i \in 2..n :
                  st[i].step \in {"convert", "run"} => Missing(st[i - 1].after)
           /\ \A i \in 1..n :
                  st[i].step = "run" =>
                      /\ Missing(st[i].before)
                      /\ madness.pc = "converting" \/ n > i
                      /\ st[i].out = "raise" =>
                             \E k \in 1..Len(madness.status) :
                                 madness.status[k].key = "madness_run"
           /\ madness.pc = "failed" <=>
                  (n >= 1 /\ st[n].step = "convert after run" /\ Missing(st[n].after))
           /\ madness.pc = "failed" <=>
                  madness.error = "Could not initialize the madness interface"
           /\ madness.pc = "ready" =>
                  /\ ~Missing(<<madness.h, madness.g>>)
                  /\ n >= 1 => ~Missing(st[n].after)

C28_Witness ==
    /\ madness.pc = "failed"
    /\ ~madness.n_pno
    /\ StepNames = <<"read", "convert", "run", "convert after run">>
    /\ madness.steps[1].after = <<"tensor", "failed">>
    /\ madness.steps[3].out = "raise"
    /\ madness.error = "Could not initialize the madness interface"

C28_WitnessRun ==
    /\ madness.pc = "ready"
    /\ madness.n_pno
    /\ StepNames = <<"run", "convert after run">>
    /\ madness.steps[1].out = "nonzero"

\* grad for the variable of concurrent call c run on its own
AloneConc(c) ==
    GradVariable(SourceGates, <<>>, objective, TargetOf(c),
                 threads[c].no_compile, ConcBackend, FALSE)

\* C8: two grad calls on the same objective for different variables,
\* interleaved in any way, each end as they do when run alone: with the same
\* result or error, over gates of the same contents.
C8_ConcurrentCallsIndependent ==
    \A c \in Calls :
        threads[c].pc = "done" =>
            Deref(threads[c].result, heap)
                = Deref(AloneConc(c).res, AloneConc(c).heap)

C8_Witness ==
    /\ \A c \in Calls :
          /\ threads[c].pc = "done"
          /\ threads[c].overlap
          /\ threads[c].result.kind = "chain"
    /\ \E e \in DOMAIN processed[1] : e \in DOMAIN processed[2]

====
